---- MODULE Spec2Model ----
(***************************************************************************)
(* A model of performance/python/benchmarks.py: the timer, the two         *)
(* growable containers, bubble_sort, the ten benchmark kernels and the     *)
(* sequential runner main() with the lines it prints.                      *)
(*                                                                         *)
(* Three specifications share the module:                                  *)
(*   Spec      one run of main(), the wall clock being the only input;     *)
(*   SpecSort  bubble_sort, step by step, on every small array;            *)
(*   SpecGrow  DynamicArray / DynamicString under arbitrary calls.         *)
(***************************************************************************)
EXTENDS Integers, Sequences, FiniteSets

(***************************************************************************)
(* Bounds.  The kernels' sizes are literals of main(); they are scaled     *)
(* down here, each keeping its role (the source's value is in the comment).*)
(***************************************************************************)
\* largest microsecond value the time source returns in the model
MaxClock == 1
\* sub-microsecond resolution of time.time(): raw ticks per microsecond
TicksPerMicrosecond == 2
\* how many reads of the clock may return a value other than the read before
MaxClockChanges == 2
\* initial capacity of every container main() creates (source: 1000)
InitialCapacity == 2
\* BENCHMARK 1 iterations (source: 1000000)
LoopN == 3
\* BENCHMARK 2 iterations (source: 10000); above 9, so that fragments differ in length
ConcatN == 11
\* BENCHMARK 3 pushes (source: 100000)
ArrayN == 5
\* BENCHMARK 4 iterations (source: 100000)
MathN == 4
\* BENCHMARK 5 calls (source: 100000)
CallN == 3
\* BENCHMARK 6 iterations of each of the two loops (source: 1000)
NestedN == 3
\* BENCHMARK 7 appends of "abc" (source: 100000) and searches (source: 1000)
SearchAppends == 3
SearchChecks == 2
\* BENCHMARK 8 array length (source: 10000)
SortN == 4
\* BENCHMARK 9 argument of fibonacci (source: 20)
FibN == 6
\* BENCHMARK 10 reset threshold (source: 5000); the loop pushes twice as many
\* values (source: 10000)
ChurnLimit == 2
ChurnN == 2 * ChurnLimit
\* SpecSort: longest array and largest element
MaxLen == 3
MaxVal == 2
\* SpecGrow: largest initial capacity, longest fragment, longest content
MaxCapacity == 2
MaxFragment == 3
MaxData == 5

\* the labels main() prints, one per kernel, in the order it runs them
Label == << "Simple Loop (1M)", "String Concatenation (10K)", "Array Creation (100K)",
            "Math Operations (100K)", "Function Calls (100K)", "Nested Loop (1K x 1K)",
            "String Search (100K)", "Array Sorting (10K)", "Recursive Functions (1K)",
            "Memory Operations (10K)" >>
NumKernels == Len(Label)
Kernels == 1 .. NumKernels

VARIABLES
  \* ---- Spec: main() ----
  pc,            \* "start" | "run" | "end" | "report" | "done"
  kernel,        \* the benchmark main() is at, 1..10 (11 once all have run)
  timer,         \* the single BenchmarkTimer of main()
  times,         \* loop_time, string_time, ..., memory_time, by kernel number
  total_time,
  out,           \* standard output, one record per line
  clock,         \* the value get_time_microseconds returned last
  changes,       \* how many reads returned a value other than the read before
  log,           \* history: the clock values returned to each kernel's start()/end()
  sum_val, total_len, str_result, arr, result, nested_sum,
  search_text, search_count, sort_arr, fib_result, mem_arr,
  \* ---- SpecSort: bubble_sort(a) ----
  a,             \* the list being sorted (arr in the source)
  a0,            \* history: the list as passed in
  i, j,          \* the two loop counters
  spc,           \* "inner" | "done"
  comparisons,   \* history: evaluations of arr[j] > arr[j + 1]
  \* ---- SpecGrow ----
  da,            \* a DynamicArray
  ds             \* a DynamicString

mainVars == <<pc, kernel, timer, times, total_time, out, clock, changes, log,
              sum_val, total_len, str_result, arr, result, nested_sum,
              search_text, search_count, sort_arr, fib_result, mem_arr>>
sortVars == <<a, a0, i, j, spc, comparisons>>
growVars == <<da, ds>>
vars == <<mainVars, sortVars, growVars>>

(***************************************************************************)
(* The time source and the timer.                                          *)
(***************************************************************************)
\* what time.time() can return, in raw ticks: a wall clock, so any value at
\* any read (it may be set back between two reads)
WallTicks == 0 .. (MaxClock * TicksPerMicrosecond + TicksPerMicrosecond - 1)

\* int(time.time() * 1000000): the raw reading truncated to whole microseconds
get_time_microseconds(raw) == raw \div TicksPerMicrosecond

BenchmarkTimer_init == [start_time |-> 0, end_time |-> 0, duration |-> 0]

\* a faulty start(): a timer that has been started keeps its first start instant
BenchmarkTimer_start_once(t, now) ==
  IF t.start_time = 0 THEN [t EXCEPT !.start_time = now] ELSE t

BenchmarkTimer_start(t, now) == [t EXCEPT !.start_time = now]

BenchmarkTimer_end(t, now) ==
  [t EXCEPT !.end_time = now, !.duration = now - t.start_time]

(***************************************************************************)
(* DynamicArray and DynamicString.                                         *)
(***************************************************************************)
DynamicArray_init(initial_capacity) == [data |-> <<>>, capacity |-> initial_capacity]

DynamicArray_push(d, value) ==
  LET data == Append(d.data, value)
  IN  [data |-> data,
       capacity |-> IF Len(data) > d.capacity THEN d.capacity * 2 ELSE d.capacity]

DynamicString_init(initial_capacity) == [data |-> <<>>, capacity |-> initial_capacity]

\* value is a string, as the sequence of its characters
DynamicString_append(d, value) ==
  LET data == d.data \o value
  IN  [data |-> data,
       capacity |-> IF Len(data) > d.capacity THEN d.capacity * 2 ELSE d.capacity]

(***************************************************************************)
(* fibonacci and bubble_sort.                                              *)
(***************************************************************************)
RECURSIVE fibonacci(_)
fibonacci(n) == IF n <= 1 THEN n ELSE fibonacci(n - 1) + fibonacci(n - 2)

\* a faulty comparison: arr[j] < arr[j + 1]
CompareSwap_less(s, jj) ==
  IF s[jj + 1] < s[jj + 2]
    THEN [s EXCEPT ![jj + 1] = s[jj + 2], ![jj + 2] = s[jj + 1]]
    ELSE s

\* the body of bubble_sort's inner loop at 0-based index jj:
\* if arr[j] > arr[j + 1]: arr[j], arr[j + 1] = arr[j + 1], arr[j]
CompareSwap(s, jj) ==
  IF s[jj + 1] > s[jj + 2]
    THEN [s EXCEPT ![jj + 1] = s[jj + 2], ![jj + 2] = s[jj + 1]]
    ELSE s

\* for j in range(from, n): body, on s
RECURSIVE InnerLoop(_, _, _)
InnerLoop(s, jj, n) == IF jj >= n THEN s ELSE InnerLoop(CompareSwap(s, jj), jj + 1, n)

\* for i in range(from, len(arr) - 1): for j in range(len(arr) - i - 1): body
RECURSIVE OuterLoop(_, _)
OuterLoop(s, ii) ==
  IF ii >= Len(s) - 1 THEN s ELSE OuterLoop(InnerLoop(s, 0, Len(s) - ii - 1), ii + 1)

\* a faulty bubble_sort: the outer loop is missing, one pass is made
bubble_sort_one_pass(s) == InnerLoop(s, 0, Len(s) - 1)

bubble_sort(s) == OuterLoop(s, 0)

(***************************************************************************)
(* The bodies of the ten benchmarks of main(), each computed as its loop.  *)
(***************************************************************************)
\* BENCHMARK 1: for i in range(from, LoopN + 1): sum_val += i
RECURSIVE SimpleLoop(_, _)
SimpleLoop(acc, ii) == IF ii > LoopN THEN acc ELSE SimpleLoop(acc + ii, ii + 1)

\* str(n) for n >= 0, as the sequence of its decimal digits
Digit == << "0", "1", "2", "3", "4", "5", "6", "7", "8", "9" >>
RECURSIVE str(_)
str(n) == IF n < 10 THEN << Digit[n + 1] >> ELSE str(n \div 10) \o << Digit[(n % 10) + 1] >>

\* BENCHMARK 2: num_str = str(i); str_result.append(num_str); total_len += len(num_str)
RECURSIVE StringConcatenation(_, _)
StringConcatenation(st, ii) ==
  IF ii > ConcatN THEN st
  ELSE LET num_str == str(ii)
       IN  StringConcatenation([str_result |-> DynamicString_append(st.str_result, num_str),
                                total_len |-> st.total_len + Len(num_str)], ii + 1)

\* BENCHMARK 3: for i in range(from, ArrayN + 1): arr.push(i)
RECURSIVE ArrayCreation(_, _)
ArrayCreation(d, ii) ==
  IF ii > ArrayN THEN d ELSE ArrayCreation(DynamicArray_push(d, ii), ii + 1)

\* BENCHMARK 4: result += (i * i) // 2
RECURSIVE MathOperations(_, _)
MathOperations(acc, ii) ==
  IF ii > MathN THEN acc ELSE MathOperations(acc + ((ii * ii) \div 2), ii + 1)

\* BENCHMARK 5: test_func = lambda x: x * x; result = test_func(i)
test_func(x) == x * x
RECURSIVE FunctionCalls(_, _)
FunctionCalls(res, ii) == IF ii > CallN THEN res ELSE FunctionCalls(test_func(ii), ii + 1)

\* BENCHMARK 6: for i ...: for j in range(from, NestedN + 1): nested_sum += i + j
RECURSIVE NestedInner(_, _, _)
NestedInner(acc, ii, jj) ==
  IF jj > NestedN THEN acc ELSE NestedInner(acc + ii + jj, ii, jj + 1)
RECURSIVE NestedLoop(_, _)
NestedLoop(acc, ii) ==
  IF ii > NestedN THEN acc ELSE NestedLoop(NestedInner(acc, ii, 1), ii + 1)

\* pattern in text, for two strings
Contains(text, pattern) ==
  \E k \in 0 .. (Len(text) - Len(pattern)) :
    \A m \in 1 .. Len(pattern) : text[k + m] = pattern[m]

ABC == << "a", "b", "c" >>
\* BENCHMARK 7, first loop: search_text.append("abc")
RECURSIVE SearchBuild(_, _)
SearchBuild(d, ii) ==
  IF ii > SearchAppends THEN d ELSE SearchBuild(DynamicString_append(d, ABC), ii + 1)
\* BENCHMARK 7, second loop: if "abc" in str(search_text): search_count += 1
RECURSIVE SearchCount(_, _, _)
SearchCount(d, cnt, ii) ==
  IF ii > SearchChecks THEN cnt
  ELSE SearchCount(d, IF Contains(d.data, ABC) THEN cnt + 1 ELSE cnt, ii + 1)

\* BENCHMARK 8, first loop: sort_arr.append(SortN - i)
RECURSIVE SortInput(_, _)
SortInput(s, ii) == IF ii > SortN THEN s ELSE SortInput(Append(s, SortN - ii), ii + 1)

\* a faulty test: len(mem_arr) >= ChurnLimit
ChurnFull_at_limit(d) == Len(d.data) >= ChurnLimit

\* BENCHMARK 10, the test after each push: len(mem_arr) > ChurnLimit
ChurnFull(d) == Len(d.data) > ChurnLimit
\* BENCHMARK 10: mem_arr.push(i); if len(mem_arr) > ChurnLimit: mem_arr = DynamicArray(...)
RECURSIVE MemoryOperations(_, _)
MemoryOperations(d, ii) ==
  IF ii > ChurnN THEN d
  ELSE LET pushed == DynamicArray_push(d, ii)
       IN  MemoryOperations(IF ChurnFull(pushed) THEN DynamicArray_init(InitialCapacity)
                                                 ELSE pushed, ii + 1)

(***************************************************************************)
(* Output.  A line is a record; print(lines) writes the lines its text     *)
(* holds (a "\n" inside the text starts a new line).                       *)
(***************************************************************************)
Line(kind, text, k, value, auxlabel, aux) ==
  [kind |-> kind, text |-> text, kernel |-> k, value |-> value,
   auxlabel |-> auxlabel, aux |-> aux]

BlankLine == Line("blank", "", 0, 0, <<>>, <<>>)
TextLine(kind, text) == Line(kind, text, 0, 0, <<>>, <<>>)

\* the two print calls that open main(); the second text ends in "\n"
HeaderLines ==
  << TextLine("header", "=== PYTHON STANDARDIZED BENCHMARK SUITE ==="),
     TextLine("header", "Testing identical operations across all languages"),
     BlankLine >>

\* what main() prints after the duration, per kernel: f", {auxlabel}: {aux}";
\* BENCHMARK 5 prints f"Function Calls (100K): {func_time} microseconds" only
AuxLabel(k) ==
  CASE k = 1  -> << "Sum" >>
    [] k = 2  -> << "Length" >>
    [] k = 3  -> << "Length" >>
    [] k = 4  -> << "Result" >>
    [] k = 5  -> <<>>
    [] k = 6  -> << "Sum" >>
    [] k = 7  -> << "Found" >>
    [] k = 8  -> << "First", "Last" >>
    [] k = 9  -> << "Fib(20)" >>
    [] k = 10 -> << "Final Length" >>
AuxValue(k, st) ==
  CASE k = 1  -> << st.sum_val >>
    [] k = 2  -> << st.total_len >>
    [] k = 3  -> << Len(st.arr.data) >>
    [] k = 4  -> << st.result >>
    [] k = 5  -> <<>>
    [] k = 6  -> << st.nested_sum >>
    [] k = 7  -> << st.search_count >>
    [] k = 8  -> << st.sort_arr[1], st.sort_arr[SortN] >>
    [] k = 9  -> << st.fib_result >>
    [] k = 10 -> << Len(st.mem_arr.data) >>

\* a faulty line for BENCHMARK 1: f"... Sum: {loop_time}", the time in place of the sum
ImmediateLine_prints_time(k, duration, st) ==
  Line("immediate", Label[k], k, duration, AuxLabel(k),
       IF k = 1 THEN << duration >> ELSE AuxValue(k, st))

\* the line main() prints right after kernel k:
\* f"{label}: {duration} microseconds, {auxlabel}: {aux}"
ImmediateLine(k, duration, st) ==
  Line("immediate", Label[k], k, duration, AuxLabel(k), AuxValue(k, st))

\* a faulty summary block: the lines of BENCHMARK 7 and BENCHMARK 8 exchanged
SummaryLines_exchanged(t) ==
  << BlankLine, TextLine("heading", "=== PYTHON BENCHMARK RESULTS ===") >>
  \o [k \in Kernels |->
        LET m == IF k = 7 THEN 8 ELSE IF k = 8 THEN 7 ELSE k
        IN  Line("summary", Label[m], m, t[m], <<>>, <<>>)]

\* the summary block: the heading (its text starts with "\n"), then one line per
\* kernel in the order loop_time, string_time, ..., memory_time
SummaryLines(t) ==
  << BlankLine, TextLine("heading", "=== PYTHON BENCHMARK RESULTS ===") >>
  \o [k \in Kernels |-> Line("summary", Label[k], k, t[k], <<>>, <<>>)]

\* total_time = loop_time + string_time + ... + memory_time
RECURSIVE SumTimes(_, _)
SumTimes(t, k) == IF k = 0 THEN 0 ELSE SumTimes(t, k - 1) + t[k]
\* a faulty total: memory_time left out of the sum
TotalTime_without_last(t) == SumTimes(t, NumKernels - 1)
TotalTime(t) == SumTimes(t, NumKernels)

\* f"{total_time / 1000:.1f}": milliseconds to one decimal, here in tenths of a
\* millisecond, rounded to the nearest (an exact tie follows the binary value of
\* the quotient; no total of the model is at a tie)
MillisecondTenths(total) == (2 * total + 100) \div 200

\* the two total lines; the first text starts with "\n"
TotalLines(total) ==
  << BlankLine,
     Line("total", "Total Benchmark Time (microseconds)", 0, total, <<>>, <<>>),
     Line("total", "Total Benchmark Time (milliseconds)", 0, MillisecondTenths(total),
          <<>>, <<>>) >>

print(output, lines) == output \o lines

(***************************************************************************)
(* Spec: one run of main().                                                *)
(***************************************************************************)
\* the locals of main() a report line reads
Locals ==
  [sum_val |-> sum_val, total_len |-> total_len, arr |-> arr, result |-> result,
   nested_sum |-> nested_sum, search_count |-> search_count, sort_arr |-> sort_arr,
   fib_result |-> fib_result, mem_arr |-> mem_arr]

\* bubble_sort and the containers are not running on their own during main()
SortIdle ==
  /\ a = <<>> /\ a0 = <<>> /\ i = 0 /\ j = 0 /\ spc = "done" /\ comparisons = 0
GrowIdle ==
  /\ da = DynamicArray_init(InitialCapacity)
  /\ ds = DynamicString_init(InitialCapacity)

\* main() after its two opening prints, timer = BenchmarkTimer() and the zeroing of
\* the ten times; the kernels' locals are not bound yet (none is read before its
\* kernel assigns it) and hold a value of their type
MainInit ==
  /\ pc = "start" /\ kernel = 1
  /\ timer = BenchmarkTimer_init
  /\ times = [k \in Kernels |-> 0]
  /\ total_time = 0
  /\ out = print(<<>>, HeaderLines)
  /\ clock = 0 /\ changes = 0
  /\ log = [k \in Kernels |-> <<>>]
  /\ sum_val = 0 /\ total_len = 0 /\ result = 0 /\ nested_sum = 0
  /\ search_count = 0 /\ fib_result = 0 /\ sort_arr = <<>>
  /\ str_result = DynamicString_init(InitialCapacity)
  /\ search_text = DynamicString_init(InitialCapacity)
  /\ arr = DynamicArray_init(InitialCapacity)
  /\ mem_arr = DynamicArray_init(InitialCapacity)

Init == MainInit /\ SortIdle /\ GrowIdle

\* one call of get_time_microseconds returning now: any value the wall clock can
\* show, changed from the read before at most MaxClockChanges times in a run
ReadClock(now) ==
  /\ \E raw \in WallTicks : now = get_time_microseconds(raw)
  /\ now = clock \/ changes < MaxClockChanges
  /\ clock' = now
  /\ changes' = IF now = clock THEN changes ELSE changes + 1

kernelLocals == <<sum_val, total_len, str_result, arr, result, nested_sum,
                  search_text, search_count, sort_arr, fib_result, mem_arr>>

\* timer.start()
BenchmarkStart ==
  /\ pc = "start"
  /\ \E now \in 0 .. MaxClock :
       /\ ReadClock(now)
       /\ timer' = BenchmarkTimer_start(timer, now)
       /\ log' = [log EXCEPT ![kernel] = << now >>]
  /\ pc' = "run"
  /\ UNCHANGED <<kernel, times, total_time, out, kernelLocals, sortVars, growVars>>

\* what every kernel body leaves alone
BodyFrame ==
  /\ pc' = "end"
  /\ UNCHANGED <<kernel, timer, times, total_time, out, clock, changes, log,
                 sortVars, growVars>>

Benchmark1 ==
  /\ pc = "run" /\ kernel = 1
  /\ sum_val' = SimpleLoop(0, 1)
  /\ BodyFrame
  /\ UNCHANGED <<total_len, str_result, arr, result, nested_sum, search_text,
                 search_count, sort_arr, fib_result, mem_arr>>

Benchmark2 ==
  /\ pc = "run" /\ kernel = 2
  /\ LET st == StringConcatenation(
                 [str_result |-> DynamicString_init(InitialCapacity), total_len |-> 0], 1)
     IN  str_result' = st.str_result /\ total_len' = st.total_len
  /\ BodyFrame
  /\ UNCHANGED <<sum_val, arr, result, nested_sum, search_text, search_count,
                 sort_arr, fib_result, mem_arr>>

Benchmark3 ==
  /\ pc = "run" /\ kernel = 3
  /\ arr' = ArrayCreation(DynamicArray_init(InitialCapacity), 1)
  /\ BodyFrame
  /\ UNCHANGED <<sum_val, total_len, str_result, result, nested_sum, search_text,
                 search_count, sort_arr, fib_result, mem_arr>>

Benchmark4 ==
  /\ pc = "run" /\ kernel = 4
  /\ result' = MathOperations(0, 1)
  /\ BodyFrame
  /\ UNCHANGED <<sum_val, total_len, str_result, arr, nested_sum, search_text,
                 search_count, sort_arr, fib_result, mem_arr>>

\* the loop assigns to result, the local BENCHMARK 4 printed
Benchmark5 ==
  /\ pc = "run" /\ kernel = 5
  /\ result' = FunctionCalls(result, 1)
  /\ BodyFrame
  /\ UNCHANGED <<sum_val, total_len, str_result, arr, nested_sum, search_text,
                 search_count, sort_arr, fib_result, mem_arr>>

Benchmark6 ==
  /\ pc = "run" /\ kernel = 6
  /\ nested_sum' = NestedLoop(0, 1)
  /\ BodyFrame
  /\ UNCHANGED <<sum_val, total_len, str_result, arr, result, search_text,
                 search_count, sort_arr, fib_result, mem_arr>>

Benchmark7 ==
  /\ pc = "run" /\ kernel = 7
  /\ search_text' = SearchBuild(DynamicString_init(InitialCapacity), 1)
  /\ search_count' = SearchCount(search_text', 0, 1)
  /\ BodyFrame
  /\ UNCHANGED <<sum_val, total_len, str_result, arr, result, nested_sum,
                 sort_arr, fib_result, mem_arr>>

Benchmark8 ==
  /\ pc = "run" /\ kernel = 8
  /\ sort_arr' = bubble_sort(SortInput(<<>>, 1))
  /\ BodyFrame
  /\ UNCHANGED <<sum_val, total_len, str_result, arr, result, nested_sum,
                 search_text, search_count, fib_result, mem_arr>>

Benchmark9 ==
  /\ pc = "run" /\ kernel = 9
  /\ fib_result' = fibonacci(FibN)
  /\ BodyFrame
  /\ UNCHANGED <<sum_val, total_len, str_result, arr, result, nested_sum,
                 search_text, search_count, sort_arr, mem_arr>>

Benchmark10 ==
  /\ pc = "run" /\ kernel = 10
  /\ mem_arr' = MemoryOperations(DynamicArray_init(InitialCapacity), 1)
  /\ BodyFrame
  /\ UNCHANGED <<sum_val, total_len, str_result, arr, result, nested_sum,
                 search_text, search_count, sort_arr, fib_result>>

\* x_time = timer.end(), then the kernel's print
BenchmarkEnd ==
  /\ pc = "end"
  /\ \E now \in 0 .. MaxClock :
       /\ ReadClock(now)
       /\ timer' = BenchmarkTimer_end(timer, now)
       /\ log' = [log EXCEPT ![kernel] = Append(@, now)]
  /\ times' = [times EXCEPT ![kernel] = timer'.duration]
  /\ out' = print(out, << ImmediateLine(kernel, times'[kernel], Locals) >>)
  /\ kernel' = kernel + 1
  /\ pc' = IF kernel = NumKernels THEN "report" ELSE "start"
  /\ UNCHANGED <<total_time, kernelLocals, sortVars, growVars>>

\* the summary block, total_time and the two total lines
Report ==
  /\ pc = "report"
  /\ total_time' = TotalTime(times)
  /\ out' = print(print(out, SummaryLines(times)), TotalLines(total_time'))
  /\ pc' = "done"
  /\ UNCHANGED <<kernel, timer, times, clock, changes, log, kernelLocals,
                 sortVars, growVars>>

Next ==
  \/ BenchmarkStart
  \/ Benchmark1 \/ Benchmark2 \/ Benchmark3 \/ Benchmark4 \/ Benchmark5
  \/ Benchmark6 \/ Benchmark7 \/ Benchmark8 \/ Benchmark9 \/ Benchmark10
  \/ BenchmarkEnd
  \/ Report

Spec == Init /\ [][Next]_vars

(***************************************************************************)
(* SpecSort: bubble_sort(a), one evaluation of the inner loop's body per   *)
(* step, on every list of at most MaxLen elements of 0 .. MaxVal.          *)
(***************************************************************************)
Lists == UNION { [1 .. n -> 0 .. MaxVal] : n \in 0 .. MaxLen }

SortInit ==
  /\ a \in Lists /\ a0 = a
  /\ i = 0 /\ j = 0 /\ spc = "inner" /\ comparisons = 0
  /\ MainInit /\ GrowIdle

\* for i in range(len(arr) - 1): the loop goes on
OuterTest == i < Len(a) - 1
\* for j in range(len(arr) - i - 1): the loop goes on
InnerTest == j < Len(a) - i - 1

\* one pass of the inner loop's body
SortInner ==
  /\ spc = "inner" /\ OuterTest /\ InnerTest
  /\ a' = CompareSwap(a, j)
  /\ comparisons' = comparisons + 1
  /\ j' = j + 1
  /\ UNCHANGED <<a0, i, spc, mainVars, growVars>>

\* the inner loop is exhausted: the next i
SortNextPass ==
  /\ spc = "inner" /\ OuterTest /\ ~InnerTest
  /\ i' = i + 1 /\ j' = 0
  /\ UNCHANGED <<a, a0, spc, comparisons, mainVars, growVars>>

\* the outer loop is exhausted: bubble_sort returns
SortReturn ==
  /\ spc = "inner" /\ ~OuterTest
  /\ spc' = "done"
  /\ UNCHANGED <<a, a0, i, j, comparisons, mainVars, growVars>>

SortNext == SortInner \/ SortNextPass \/ SortReturn

\* a running function keeps running: the interpreter takes the next step
SpecSort == SortInit /\ [][SortNext]_vars /\ WF_vars(SortNext)

(***************************************************************************)
(* SpecGrow: a DynamicArray and a DynamicString created with any initial   *)
(* capacity 0 .. MaxCapacity, under any sequence of push / append.         *)
(***************************************************************************)
Values == {0, 1}
Chars == {"a", "b"}
Fragments == UNION { [1 .. n -> Chars] : n \in 0 .. MaxFragment }

GrowInit ==
  /\ \E c \in 0 .. MaxCapacity : da = DynamicArray_init(c)
  /\ \E c \in 0 .. MaxCapacity : ds = DynamicString_init(c)
  /\ MainInit /\ SortIdle

Push ==
  /\ Len(da.data) < MaxData
  /\ \E value \in Values : da' = DynamicArray_push(da, value)
  /\ UNCHANGED <<ds, mainVars, sortVars>>

AppendText ==
  /\ \E value \in Fragments :
       /\ Len(ds.data) + Len(value) <= MaxData
       /\ ds' = DynamicString_append(ds, value)
  /\ UNCHANGED <<da, mainVars, sortVars>>

GrowNext == Push \/ AppendText

SpecGrow == GrowInit /\ [][GrowNext]_vars

(***************************************************************************)
(* Properties.                                                             *)
(***************************************************************************)
Range(s) == { s[n] : n \in DOMAIN s }
\* the line of a kind main() has printed for kernel k
LineOf(kind, k) == CHOOSE l \in Range(out) : l.kind = kind /\ l.kernel = k
Printed(kind, k) == \E l \in Range(out) : l.kind = kind /\ l.kernel = k
\* kernel k has returned from timer.end()
Timed(k) == Len(log[k]) = 2

\* C1: for every kernel, the duration timer.end() returns and main() prints is
\* >= 0, whatever values the time source returns.
C1_DurationNonNegative ==
  /\ timer.duration >= 0
  /\ \A k \in Kernels : Printed("immediate", k) => LineOf("immediate", k).value >= 0

\* BENCHMARK 8 has built and sorted sort_arr
Sorted8 == kernel > 8 \/ (kernel = 8 /\ pc = "end")
StrictlyAscending(s) == \A n \in 1 .. (Len(s) - 1) : s[n] < s[n + 1]

\* C2, as claimed: after bubble_sort the array built by BENCHMARK 8 is strictly
\* ascending, its first element is 1 and its last element is the number of
\* elements (10000 in the source).
C2_FirstOneLastN ==
  Sorted8 => /\ StrictlyAscending(sort_arr)
             /\ sort_arr[1] = 1
             /\ sort_arr[Len(sort_arr)] = SortN

\* C2, amended: after bubble_sort the array built by BENCHMARK 8 (SortN elements,
\* SortN - i for i in 1 .. SortN) is strictly ascending, its first element is 0
\* and its last element is SortN - 1 (9999 in the source); these are the values
\* the kernel's line prints.
C2_FirstZeroLastNMinusOne ==
  Sorted8 => /\ Len(sort_arr) = SortN
             /\ StrictlyAscending(sort_arr)
             /\ sort_arr[1] = 0
             /\ sort_arr[Len(sort_arr)] = SortN - 1
             /\ Printed("immediate", 8) =>
                  LineOf("immediate", 8).aux = << 0, SortN - 1 >>

C2_Witness == pc = "done" /\ Len(sort_arr) = SortN /\ Printed("immediate", 8)

\* BENCHMARK 10 has run its loop
Churned == kernel > 10 \/ (kernel = 10 /\ pc = "end")

\* C3, as claimed: after the loop of BENCHMARK 10 (twice as many pushes as the
\* reset threshold) the final container's length is within 1 .. threshold and is
\* exactly the threshold (5000 in the source).
C3_FinalLengthIsLimit ==
  Churned => /\ Len(mem_arr.data) \in 1 .. ChurnLimit
             /\ Len(mem_arr.data) = ChurnLimit

\* C3, amended: after the loop the final container's length is within
\* 1 .. threshold and is exactly threshold - 1 (4999 in the source): the number
\* of pushes modulo threshold + 1, the reset coming with the push that makes the
\* length threshold + 1.
C3_FinalLengthIsLimitMinusOne ==
  Churned => /\ Len(mem_arr.data) \in 1 .. ChurnLimit
             /\ Len(mem_arr.data) = ChurnLimit - 1
             /\ Len(mem_arr.data) = ChurnN % (ChurnLimit + 1)
             /\ Printed("immediate", 10) =>
                  LineOf("immediate", 10).aux = << ChurnLimit - 1 >>

C3_Witness == pc = "done" /\ Printed("immediate", 10) /\ Len(mem_arr.data) >= 1

\* C4: for a DynamicArray and a DynamicString of any initial capacity, every push
\* / append (of a fragment of any length) leaves the capacity no smaller than it
\* was and, after its doubling check, no smaller than the length.
C4_CapacityCoversLength ==
  [][ /\ da'.capacity >= da.capacity /\ da'.capacity >= Len(da'.data)
      /\ ds'.capacity >= ds.capacity /\ ds'.capacity >= Len(ds'.data) ]_vars

\* C5: the line printed right after each kernel holds the kernel's label, its
\* duration and its auxiliary value with the value's label; none lacks the
\* auxiliary value.
C5_EveryLineHasAux ==
  \A k \in Kernels :
    Printed("immediate", k) =>
      LET l == LineOf("immediate", k)
      IN  l.text = Label[k] /\ l.value = times[k]
          /\ Len(l.aux) >= 1 /\ Len(l.auxlabel) = Len(l.aux)

\* what identifies a line: its kind and the kernel it is about
Tags(lines) == [n \in DOMAIN lines |-> << lines[n].kind, lines[n].kernel >>]
IsPrefix(s, t) == Len(s) <= Len(t) /\ \A n \in 1 .. Len(s) : s[n] = t[n]
KernelTags(kind) == [k \in Kernels |-> << kind, k >>]
\* the lines of out from the first immediate line to the last total line
FirstOf(kind) == CHOOSE n \in DOMAIN out :
                   out[n].kind = kind /\ \A m \in 1 .. (n - 1) : out[m].kind # kind
LastOf(kind) == CHOOSE n \in DOMAIN out :
                  out[n].kind = kind /\ \A m \in (n + 1) .. Len(out) : out[m].kind # kind
Reports == SubSeq(out, FirstOf("immediate"), LastOf("total"))

\* C6, as claimed: a run's output from the first immediate line to the last total
\* line is the 10 immediate lines (kernels 1 to 10), the 10 summary lines (same
\* order) and the 2 total lines, and nothing else.
C6_NothingInterleaved ==
  pc = "done" =>
    Tags(Reports) = KernelTags("immediate") \o KernelTags("summary")
                      \o << <<"total", 0>>, <<"total", 0>> >>

\* C6, amended: after the two header lines and an empty line, a run prints the
\* 10 immediate lines (kernels 1 to 10), an empty line and the heading line of
\* the summary, the 10 summary lines (same order), an empty line, and the 2 total
\* lines, in that order; the output is at every moment a prefix of this.
ExpectedTags ==
  << <<"header", 0>>, <<"header", 0>>, <<"blank", 0>> >>
  \o KernelTags("immediate")
  \o << <<"blank", 0>>, <<"heading", 0>> >>
  \o KernelTags("summary")
  \o << <<"blank", 0>>, <<"total", 0>>, <<"total", 0>> >>
C6_OutputShape ==
  /\ IsPrefix(Tags(out), ExpectedTags)
  /\ pc = "done" => Tags(out) = ExpectedTags

C6_Witness == pc = "done" /\ Len(out) = Len(ExpectedTags) /\ Printed("summary", 10)

RECURSIVE SumPrinted(_, _)
SumPrinted(kind, k) ==
  IF k = 0 THEN 0 ELSE SumPrinted(kind, k - 1) + LineOf(kind, k).value
TotalLine == CHOOSE l \in Range(out) :
               l.kind = "total" /\ l.text = "Total Benchmark Time (microseconds)"

\* C7: the total printed in microseconds is the integer sum of the ten durations
\* printed in the immediate lines, each of which the summary block reprints.
C7_TotalIsSum ==
  pc = "done" =>
    /\ TotalLine.value = SumPrinted("immediate", NumKernels)
    /\ \A k \in Kernels : LineOf("summary", k).value = LineOf("immediate", k).value

C7_Witness ==
  /\ pc = "done" /\ TotalLine.value # 0
  /\ \E k, m \in Kernels : LineOf("immediate", k).value # 0
                           /\ LineOf("immediate", m).value = 0

\* the auxiliary values of the kernels, as functions of the kernels' sizes alone
DigitCount(n) ==
  n + (IF n >= 10 THEN n - 9 ELSE 0) + (IF n >= 100 THEN n - 99 ELSE 0)
RECURSIVE FibIter(_, _, _)
FibIter(n, x, y) == IF n = 0 THEN x ELSE FibIter(n - 1, y, x + y)
ExpectedAux(k) ==
  CASE k = 1  -> << (LoopN * (LoopN + 1)) \div 2 >>
    [] k = 2  -> << DigitCount(ConcatN) >>
    [] k = 3  -> << ArrayN >>
    [] k = 4  -> << (((MathN * (MathN + 1) * (2 * MathN + 1)) \div 6)
                      - ((MathN + 1) \div 2)) \div 2 >>
    [] k = 5  -> <<>>
    [] k = 6  -> << NestedN * NestedN * (NestedN + 1) >>
    [] k = 7  -> << SearchChecks >>
    [] k = 8  -> << 0, SortN - 1 >>
    [] k = 9  -> << FibIter(FibN, 0, 1) >>
    [] k = 10 -> << ChurnN % (ChurnLimit + 1) >>

\* C8: the auxiliary value a run prints for a kernel is the same in every run,
\* whatever the clock returned: it is a function of the kernel alone.
C8_AuxDeterministic ==
  \A k \in Kernels :
    Printed("immediate", k) => LineOf("immediate", k).aux = ExpectedAux(k)

C8_Witness ==
  /\ pc = "done" /\ changes = MaxClockChanges
  /\ \E k \in Kernels : times[k] # 0 /\ Len(LineOf("immediate", k).aux) = 1

IsSorted(s) == \A n \in 1 .. (Len(s) - 1) : s[n] <= s[n + 1]
Count(s, v) == Cardinality({ n \in DOMAIN s : s[n] = v })
IsPermutation(s, t) ==
  Len(s) = Len(t) /\ \A v \in Range(s) \cup Range(t) : Count(s, v) = Count(t, v)
AdjacentSwap(s, t) ==
  \E n \in 1 .. (Len(s) - 1) : t = [s EXCEPT ![n] = s[n + 1], ![n + 1] = s[n]]

\* C9: on every list bubble_sort terminates, leaving it in non-decreasing order
\* and a permutation of what it was, each step changing it by a swap of two
\* adjacent elements if at all, after a number of comparisons that depends on
\* the length alone: n * (n - 1) / 2.
C9_BubbleSort ==
  /\ [](spc = "done" => /\ IsSorted(a) /\ IsPermutation(a, a0)
                        /\ comparisons = (Len(a0) * (Len(a0) - 1)) \div 2)
  /\ [][a' = a \/ AdjacentSwap(a, a')]_vars
  /\ <>(spc = "done")

C9_Witness ==
  /\ spc = "done" /\ a # a0 /\ Len(a0) >= 3
  /\ \E n, m \in DOMAIN a0 : n # m /\ a0[n] = a0[m]

\* C10: with the one timer reused, the duration recorded for a kernel is the stop
\* instant minus the start instant of that kernel's own start() / end() pair,
\* and the calls made for later kernels leave it as it is.
C10_OwnPair ==
  /\ [](\A k \in Kernels : Timed(k) => times[k] = log[k][2] - log[k][1])
  /\ [][\A k \in Kernels : Timed(k) => times'[k] = times[k]]_vars

C10_Witness ==
  /\ pc = "done" /\ times[1] # 0 /\ times[2] # times[1]
  /\ log[2][1] # log[1][1]

====
